---- MODULE Spec2Model ----
(***************************************************************************)
(* Model of py-mod-deps-lextractor.py: the package tree built from a       *)
(* directory (PackageInfo.of_dir), the enumeration of its modules          *)
(* (PackageInfo.iter_modules), the extraction and resolution of import     *)
(* declarations (DependenciesReader, ImportsExtractor) and the emission of *)
(* the edges (output_dependencies), driven by main.                        *)
(*                                                                         *)
(* Representation of Python values:                                        *)
(*   None / Optional[x]  <<>> / <<x>>                                      *)
(*   dict                a sequence of <<key, value>> pairs with unique    *)
(*                       keys, in insertion order                          *)
(*   tuple, list         a sequence                                        *)
(*   set                 a set                                             *)
(*   str (dotted name)   a sequence of tokens: identifiers and "."         *)
(*   Path                a record [parent, stem, suffix, is_dir]           *)
(***************************************************************************)
EXTENDS Integers, Sequences, FiniteSets, TLC

VARIABLES
    fs,               \* the directory tree under src_dir: a set of Paths
    extra_targets,    \* cli_parse's second result: a set of QModName
    pc,               \* position in main
    root_dir_info,    \* main: Optional[PackageInfo]
    all_targets,      \* main: src_dir_targets.union(extra_targets)
    iter,             \* read: what iter_modules() has still to yield
    module,           \* read: Optional[QModuleInfo], the module being read
    the_ast,          \* the import nodes of `module` visited so far
    output,           \* ImportsExtractor.output
    n_visited,        \* the number of import nodes read() has visited so far
    ret_val,          \* read: dict QModName -> set of QModName
    dependencies,     \* main: Optional[dict], the value read() returned
    out_src,          \* output_dependencies: index of src in dependencies
    out_rest,         \* output_dependencies: dsts of src not yet printed
    stdout            \* the lines printed

vars == <<fs, extra_targets, pc, root_dir_info, all_targets, iter, module,
          the_ast, output, n_visited, ret_val, dependencies, out_src, out_rest,
          stdout>>

(***************************************************************************)
(* Bounds.                                                                 *)
(***************************************************************************)
\* the number of import nodes (ast.Import, ast.ImportFrom) in the modules of
\* one run
MaxImports == 2

(***************************************************************************)
(* Python values.                                                          *)
(***************************************************************************)
None == <<>>
Some(x) == <<x>>

Range(s) == {s[i] : i \in DOMAIN s}

RECURSIVE Perms(_)
\* all the orders in which a set can be iterated
Perms(S) ==
    IF S = {} THEN {<<>>}
    ELSE UNION {{<<x>> \o p : p \in Perms(S \ {x})} : x \in S}

DictKeys(d) == [i \in DOMAIN d |-> d[i][1]]
DictKeySet(d) == {d[i][1] : i \in DOMAIN d}
DictHas(d, k) == k \in DictKeySet(d)
\* d[k], for a key of d
DictAt(d, k) == d[CHOOSE i \in DOMAIN d : d[i][1] = k][2]
\* d.get(k)
DictGet(d, k) == IF DictHas(d, k) THEN Some(DictAt(d, k)) ELSE None
\* d[k] = v: a new key is appended, an old key keeps its place
DictSet(d, k, v) ==
    IF DictHas(d, k)
    THEN [i \in DOMAIN d |-> IF d[i][1] = k THEN <<k, v>> ELSE d[i]]
    ELSE Append(d, <<k, v>>)

(***************************************************************************)
(* The file system under src_dir.                                          *)
(***************************************************************************)
File(parent, stem, suffix) ==
    [parent |-> parent, stem |-> stem, suffix |-> suffix, is_dir |-> FALSE]
Dir(parent, name) ==
    [parent |-> parent, stem |-> name, suffix |-> "", is_dir |-> TRUE]
\* the parts of a directory's path relative to src_dir
Parts(p) == Append(p.parent, p.stem)
InitFile(dir) == File(dir, "__init__", ".py")

\* every entry a scanned directory tree is drawn from
AllPaths ==
    { File(<<>>, "a", ".py"), InitFile(<<>>), Dir(<<>>, "a"),
      File(<<"a">>, "a", ".py"), InitFile(<<"a">>), Dir(<<"a">>, "b"),
      File(<<"a", "b">>, "a", ".py"), File(<<"a", "b">>, "a", ".txt"),
      InitFile(<<"a", "b">>) }

\* a set of entries is a directory tree when every entry's directory is in it
IsFileSystem(S) ==
    \A p \in S : p.parent # <<>> =>
        \E d \in S : d.is_dir /\ Parts(d) = p.parent

\* src_dir.iterdir()
IterDir(src_dir) == {p \in fs : p.parent = src_dir}
\* (p / '__init__.py').is_file()
HasInitFile(p) == InitFile(Parts(p)) \in fs

(***************************************************************************)
(* PackageInfo.                                                            *)
(***************************************************************************)
ModuleInfo(source_file) == [source_file |-> source_file]

PackageInfo(modules, packages) ==
    [packages |-> packages, modules |-> modules,
     names |-> DictKeySet(modules) \cup DictKeySet(packages)]

IsModuleFile(p) ==
    ~p.is_dir /\ p.suffix = ".py" /\ ~(p.stem = "__init__" /\ p.suffix = ".py")
\* a variant of the test for a package that does not look for the marker
IsPackageDirAny(p) == p.is_dir
IsPackageDir(p) == p.is_dir /\ HasInitFile(p)

RECURSIVE OfDir(_)
RECURSIVE OfDirLoop(_, _, _)
\* the loop of of_dir over the entries `todo`: every <<modules, packages>> it
\* can end with (a child package is any value of_dir can return for it)
OfDirLoop(todo, modules, packages) ==
    IF todo = <<>> THEN {<<modules, packages>>}
    ELSE LET p == Head(todo) IN
         IF IsModuleFile(p)
         THEN OfDirLoop(Tail(todo),
                        DictSet(modules, p.stem, ModuleInfo(p)), packages)
         ELSE IF IsPackageDir(p)
         THEN UNION { OfDirLoop(Tail(todo), modules,
                                DictSet(packages, p.stem, sub))
                      : sub \in OfDir(Parts(p)) }
         ELSE OfDirLoop(Tail(todo), modules, packages)

\* PackageInfo.of_dir(src_dir): every value it can return, iterdir() yielding
\* the entries in any order
OfDir(src_dir) ==
    { PackageInfo(r[1], r[2]) :
        r \in UNION { OfDirLoop(order, <<>>, <<>>) : order \in Perms(IterDir(src_dir)) } }

IsRootOf(self, qname) == qname[1] \in self.names

QModuleInfo(qname, info, parents) ==
    [qname |-> qname, info |-> info, parents |-> parents]

\* a variant of _iter_modules that does not descend into the packages
IterModulesFromTop(self, parent_qname, parents) ==
    [i \in DOMAIN self.modules |->
        QModuleInfo(Append(parent_qname, self.modules[i][1]),
                    self.modules[i][2], parents)]

RECURSIVE IterModulesFrom(_, _, _)
RECURSIVE IterPackages(_, _, _, _)
\* the second loop of _iter_modules, over self.packages.items() from index i
IterPackages(self, i, parent_qname, parents) ==
    IF i > Len(self.packages) THEN <<>>
    ELSE IterModulesFrom(self.packages[i][2],
                         Append(parent_qname, self.packages[i][1]),
                         <<self>> \o parents)
         \o IterPackages(self, i + 1, parent_qname, parents)

\* self._iter_modules(parent_qname, parents): the sequence it yields
IterModulesFrom(self, parent_qname, parents) ==
    [i \in DOMAIN self.modules |->
        QModuleInfo(Append(parent_qname, self.modules[i][1]),
                    self.modules[i][2], parents)]
    \o IterPackages(self, 1, parent_qname, parents)

IterModules(self) == IterModulesFrom(self, <<>>, <<>>)

(***************************************************************************)
(* Names.  A dotted name (alias.name of an ast.Import, node.module) is the *)
(* sequence of its tokens, "a.b" being <<"a", ".", "b">>; an identifier    *)
(* (a component of a QModName, alias.name of an ast.ImportFrom, a file's   *)
(* stem) is one token.                                                     *)
(***************************************************************************)
RECURSIVE SplitDots(_, _)
\* str.split('.') of the tokens s, `piece` being the piece scanned so far
SplitDots(s, piece) ==
    IF s = <<>> THEN <<piece>>
    ELSE IF Head(s) = "." THEN <<piece>> \o SplitDots(Tail(s), "")
    ELSE SplitDots(Tail(s), Head(s))

\* mod_name_from_str(name)
ModNameFromStr(name) == SplitDots(name, "")

RECURSIVE RenderModName(_)
\* render_mod_name(qname): '.'.join(qname)
RenderModName(qname) ==
    IF Len(qname) <= 1 THEN qname
    ELSE <<Head(qname), ".">> \o RenderModName(Tail(qname))

(***************************************************************************)
(* The import nodes of a parsed module, in the order NodeVisitor reaches   *)
(* them.                                                                   *)
(***************************************************************************)
Alias(name, asname) == [name |-> name, asname |-> asname]
Import(names) == [type |-> "Import", names |-> names]
ImportFrom(mod, names, level) ==
    [type |-> "ImportFrom", module |-> mod, names |-> names, level |-> level]

\* the ast.Import nodes a module's source is drawn from
ImportNodes ==
    { Import(<<Alias(<<"a", ".", "b">>, None)>>),
      Import(<<Alias(<<"b">>, None)>>),
      Import(<<Alias(<<"a">>, Some("x")), Alias(<<"a">>, None)>>) }

\* the names lists of the ast.ImportFrom nodes
FromNames ==
    { <<Alias("*", None)>>,
      <<Alias("a", None)>>,
      <<Alias("b", Some("x")), Alias("a", None)>> }

\* the level 0 ast.ImportFrom nodes
AbsoluteNodes ==
    { ImportFrom(Some(m), names, 0) :
        m \in {<<"a">>, <<"a", ".", "b">>}, names \in FromNames }

\* the ast.ImportFrom nodes of nonzero level
RelativeNodes == { ImportFrom(Some(<<"a">>), <<Alias("a", None)>>, 1) }

(***************************************************************************)
(* ImportsExtractor.                                                       *)
(***************************************************************************)
RECURSIVE LookupFrom(_, _)
\* the loop of _lookup_package from pkg_info over the rest of qname
LookupFrom(pkg_info, qname) ==
    IF qname = <<>> THEN Some(pkg_info)
    ELSE LET next == DictGet(pkg_info.packages, Head(qname)) IN
         IF next = None THEN None
         ELSE LookupFrom(next[1], Tail(qname))

\* self._lookup_package(qname)
LookupPackage(root, qname) == LookupFrom(root, qname)

\* a variant of _star_or_non_star_names that knows no wildcard
StarOrNonStarNamesListed(imported, package_info) ==
    {[i \in DOMAIN imported |-> imported[i].name]}

\* a variant of _star_or_non_star_names that takes any single name for the
\* wildcard
StarOrNonStarNamesSingle(imported, package_info) ==
    IF Len(imported) = 1
    THEN Perms(package_info.names)
    ELSE {[i \in DOMAIN imported |-> imported[i].name]}

\* _star_or_non_star_names(imported, package_info): the identifiers, in every
\* order the result can be iterated in
StarOrNonStarNames(imported, package_info) ==
    IF Len(imported) = 1 /\ imported[1].name = "*"
    THEN Perms(package_info.names)
    ELSE {[i \in DOMAIN imported |-> imported[i].name]}

\* a variant of visit_Import that keeps the top-level name of each import only
VisitImportOutputTop(node) ==
    [i \in DOMAIN node.names |-> <<ModNameFromStr(node.names[i].name)[1]>>]

\* visit_Import(node): what is added to self.output
VisitImportOutput(node) ==
    [i \in DOMAIN node.names |-> ModNameFromStr(node.names[i].name)]

\* a variant of _handle_absolute that adds base + (name,) for the names listed
\* when base is no package
HandleAbsoluteNames(root, node) ==
    LET base == ModNameFromStr(node.module[1]) IN
    IF ~IsRootOf(root, base) THEN {<<>>}
    ELSE LET mb_package == LookupPackage(root, base) IN
         IF mb_package # None
         THEN { [i \in DOMAIN idents |-> Append(base, idents[i])] :
                  idents \in StarOrNonStarNames(node.names, mb_package[1]) }
         ELSE {[i \in DOMAIN node.names |-> Append(base, node.names[i].name)]}

\* _handle_absolute(node): every list it can add to self.output
HandleAbsolute(root, node) ==
    LET base == ModNameFromStr(node.module[1]) IN
    IF ~IsRootOf(root, base) THEN {<<>>}
    ELSE LET mb_package == LookupPackage(root, base) IN
         IF mb_package # None
         THEN { [i \in DOMAIN idents |-> Append(base, idents[i])] :
                  idents \in StarOrNonStarNames(node.names, mb_package[1]) }
         ELSE {<<base>>}

\* a variant of _handle_relative that takes node.module for an absolute name
HandleRelativeAsAbsolute(root, node) == <<ModNameFromStr(node.module[1])>>

\* _handle_relative(node): what is added to self.output
HandleRelative(root, node) == <<>>

(***************************************************************************)
(* DependenciesReader.                                                     *)
(***************************************************************************)
\* self._is_target(module)
IsTarget(root, qname) == IsRootOf(root, qname)

\* _deps_of_file(module), imported_modules being what _extract_imports returned
DepsOfFile(root, mod, imported_modules) ==
    <<mod.qname,
      {imported_modules[i] : i \in
          {j \in DOMAIN imported_modules : IsTarget(root, imported_modules[j])}}>>

(***************************************************************************)
(* main and what it calls.                                                 *)
(***************************************************************************)
\* --target arguments (args.target) of the runs considered
TargetArgs == { <<>>, << <<"b">> >> }

\* cli_parse: extra_targets, from args.target
CliExtraTargets(target) == {ModNameFromStr(target[i]) : i \in DOMAIN target}

\* read_input_paths(src_dir): packages, targets and the set of mod_files
ReadInputPaths ==
    LET globbed == {p \in fs : p.suffix = ".py"}
        inits == {p \in globbed : p.stem = "__init__"}
    IN  [packages |-> {p.parent : p \in inits},
         targets |-> {p.parent : p \in {q \in inits : Len(q.parent) = 1}}
                     \cup {<<p.stem>> : p \in {q \in globbed : q.parent = <<>>}},
         mod_files |-> globbed \ inits]

Init ==
    /\ fs \in {S \in SUBSET AllPaths : IsFileSystem(S)}
    /\ extra_targets \in {CliExtraTargets(t) : t \in TargetArgs}
    /\ pc = "of_dir"
    /\ root_dir_info = None
    /\ all_targets = {}
    /\ iter = <<>>
    /\ module = None
    /\ the_ast = <<>>
    /\ output = <<>>
    /\ n_visited = 0
    /\ ret_val = <<>>
    /\ dependencies = None
    /\ out_src = 0
    /\ out_rest = {}
    /\ stdout = <<>>

\* main: root_dir_info = PackageInfo.of_dir(src_dir)
MainOfDir ==
    /\ pc = "of_dir"
    /\ \E info \in OfDir(<<>>) : root_dir_info' = Some(info)
    /\ pc' = "read_input_paths"
    /\ UNCHANGED <<fs, extra_targets, all_targets, iter, module, the_ast, output,
                   n_visited, ret_val, dependencies, out_src, out_rest, stdout>>

\* main: read_input_paths and all_targets
MainReadInputPaths ==
    /\ pc = "read_input_paths"
    /\ all_targets' = ReadInputPaths.targets \cup extra_targets
    /\ pc' = "read"
    /\ UNCHANGED <<fs, extra_targets, root_dir_info, iter, module, the_ast, output,
                   n_visited, ret_val, dependencies, out_src, out_rest, stdout>>

\* DependenciesReader.read: ret_val = dict() and the start of the loop
Read ==
    /\ pc = "read"
    /\ ret_val' = <<>>
    /\ iter' = IterModules(root_dir_info[1])
    /\ pc' = "read_loop"
    /\ UNCHANGED <<fs, extra_targets, root_dir_info, all_targets, module, the_ast,
                   output, n_visited, dependencies, out_src, out_rest, stdout>>

\* _extract_imports: the next module's source is read and parsed, and an
\* ImportsExtractor made for it
ExtractImports ==
    /\ pc = "read_loop"
    /\ iter # <<>>
    /\ module' = Some(Head(iter))
    /\ iter' = Tail(iter)
    /\ the_ast' = <<>>
    /\ output' = <<>>
    /\ pc' = "visit"
    /\ UNCHANGED <<fs, extra_targets, root_dir_info, all_targets, n_visited,
                   ret_val, dependencies, out_src, out_rest, stdout>>

\* a variant of read that catches the parse error and goes on to the next
\* module
ParseErrorSkipped ==
    /\ pc = "read_loop"
    /\ iter # <<>>
    /\ module' = None
    /\ iter' = Tail(iter)
    /\ UNCHANGED <<fs, extra_targets, pc, root_dir_info, all_targets, the_ast,
                   output, n_visited, ret_val, dependencies, out_src, out_rest,
                   stdout>>

\* _extract_imports: ast.parse raises, and nothing up to main catches it
ParseError ==
    /\ pc = "read_loop"
    /\ iter # <<>>
    /\ module' = Some(Head(iter))
    /\ iter' = Tail(iter)
    /\ pc' = "failed"
    /\ UNCHANGED <<fs, extra_targets, root_dir_info, all_targets, the_ast, output,
                   n_visited, ret_val, dependencies, out_src, out_rest, stdout>>

\* visit_Import(node), node being the next import node of the module
VisitImport ==
    /\ pc = "visit"
    /\ n_visited < MaxImports
    /\ \E node \in ImportNodes :
        /\ the_ast' = Append(the_ast, node)
        /\ output' = output \o VisitImportOutput(node)
    /\ n_visited' = n_visited + 1
    /\ UNCHANGED <<fs, extra_targets, pc, root_dir_info, all_targets, iter, module,
                   ret_val, dependencies, out_src, out_rest, stdout>>

\* visit_ImportFrom(node), node being the next import node of the module
VisitImportFrom ==
    /\ pc = "visit"
    /\ n_visited < MaxImports
    /\ \E node \in AbsoluteNodes \cup RelativeNodes :
        /\ the_ast' = Append(the_ast, node)
        /\ IF node.level = 0
           THEN \E added \in HandleAbsolute(root_dir_info[1], node) :
                    output' = output \o added
           ELSE output' = output \o HandleRelative(root_dir_info[1], node)
    /\ n_visited' = n_visited + 1
    /\ UNCHANGED <<fs, extra_targets, pc, root_dir_info, all_targets, iter, module,
                   ret_val, dependencies, out_src, out_rest, stdout>>

\* read: src, dst = self._deps_of_file(mod_file_info); ret_val[src] = dst
ReadDepsOfFile ==
    /\ pc = "visit"
    /\ LET r == DepsOfFile(root_dir_info[1], module[1], output)
       IN  ret_val' = DictSet(ret_val, r[1], r[2])
    /\ pc' = "read_loop"
    /\ UNCHANGED <<fs, extra_targets, root_dir_info, all_targets, iter, module,
                   the_ast, output, n_visited, dependencies, out_src, out_rest,
                   stdout>>

\* read returns ret_val to main, which calls output_dependencies; the locals
\* of read are gone
ReadReturn ==
    /\ pc = "read_loop"
    /\ iter = <<>>
    /\ dependencies' = Some(ret_val)
    /\ out_src' = 0
    /\ out_rest' = {}
    /\ pc' = "output"
    /\ module' = None
    /\ the_ast' = <<>>
    /\ output' = <<>>
    /\ n_visited' = 0
    /\ ret_val' = <<>>
    /\ UNCHANGED <<fs, extra_targets, root_dir_info, all_targets, iter, stdout>>

\* the line print writes for an edge
Line(src, dst) == RenderModName(src) \o <<" ">> \o RenderModName(dst)

\* a variant of the outer loop that takes the dsts of every src for those of
\* the next src
OutputNextSrcAll ==
    /\ pc = "output"
    /\ out_rest = {}
    /\ out_src < Len(dependencies[1])
    /\ out_src' = out_src + 1
    /\ out_rest' = UNION {dependencies[1][i][2] : i \in DOMAIN dependencies[1]}
    /\ UNCHANGED <<fs, extra_targets, pc, root_dir_info, all_targets, iter, module,
                   the_ast, output, n_visited, ret_val, dependencies, stdout>>

\* output_dependencies: the outer loop takes the next src
OutputNextSrc ==
    /\ pc = "output"
    /\ out_rest = {}
    /\ out_src < Len(dependencies[1])
    /\ out_src' = out_src + 1
    /\ out_rest' = DictAt(dependencies[1], DictKeys(dependencies[1])[out_src + 1])
    /\ UNCHANGED <<fs, extra_targets, pc, root_dir_info, all_targets, iter, module,
                   the_ast, output, n_visited, ret_val, dependencies, stdout>>

\* output_dependencies: the inner loop prints one dst of src
OutputPrint ==
    /\ pc = "output"
    /\ out_rest # {}
    /\ \E dst \in out_rest :
        /\ stdout' = Append(stdout, Line(DictKeys(dependencies[1])[out_src], dst))
        /\ out_rest' = out_rest \ {dst}
    /\ UNCHANGED <<fs, extra_targets, pc, root_dir_info, all_targets, iter, module,
                   the_ast, output, n_visited, ret_val, dependencies, out_src>>

\* output_dependencies and main return
OutputReturn ==
    /\ pc = "output"
    /\ out_rest = {}
    /\ out_src = Len(dependencies[1])
    /\ pc' = "done"
    /\ UNCHANGED <<fs, extra_targets, root_dir_info, all_targets, iter, module,
                   the_ast, output, n_visited, ret_val, dependencies, out_src,
                   out_rest, stdout>>

Next ==
    \/ MainOfDir
    \/ MainReadInputPaths
    \/ Read
    \/ ExtractImports
    \/ ParseError
    \/ VisitImport
    \/ VisitImportFrom
    \/ ReadDepsOfFile
    \/ ReadReturn
    \/ OutputNextSrc
    \/ OutputPrint
    \/ OutputReturn

Spec == Init /\ [][Next]_vars

(***************************************************************************)
(* What the properties are stated in: the directory tree itself, and names *)
(* read off the import nodes directly.                                     *)
(***************************************************************************)
\* the qualified name a dotted name denotes: its tokens between the dots
QNameOf(name) == [i \in 1..((Len(name) + 1) \div 2) |-> name[2 * i - 1]]

\* the directories that may be scanned, src_dir being <<>>
DirPaths == {<<>>} \cup {Parts(p) : p \in {q \in AllPaths : q.is_dir}}

\* d is src_dir, or a chain of directories below it that each hold a marker
IsPackagePath(d) ==
    \A i \in 1..Len(d) :
        /\ Dir(SubSeq(d, 1, i - 1), d[i]) \in fs
        /\ InitFile(SubSeq(d, 1, i)) \in fs

FsModules(d) ==
    {p.stem : p \in {q \in fs : /\ q.parent = d
                                /\ ~q.is_dir
                                /\ q.suffix = ".py"
                                /\ q.stem # "__init__"}}
FsPackages(d) ==
    {p.stem : p \in {q \in fs : /\ q.parent = d
                                /\ q.is_dir
                                /\ InitFile(Append(d, q.stem)) \in fs}}
FsMembers(d) == FsModules(d) \cup FsPackages(d)
RootNames == FsMembers(<<>>)

\* the qualified names of the modules of the tree
FsModuleNames ==
    UNION {{Append(d, m) : m \in FsModules(d)} :
             d \in {e \in DirPaths : IsPackagePath(e)}}

IsPrefix(t, q) == Len(t) <= Len(q) /\ SubSeq(q, 1, Len(t)) = t

IsPlain(node) == node.type = "Import"
IsAbsoluteFrom(node) == node.type = "ImportFrom" /\ node.level = 0
IsRelativeFrom(node) == node.type = "ImportFrom" /\ node.level # 0
IsWildcard(node) == Len(node.names) = 1 /\ node.names[1].name = "*"
BaseOf(node) == QNameOf(node.module[1])
PlainNames(node) == {QNameOf(node.names[j].name) : j \in DOMAIN node.names}
FromNamesOf(node) == {node.names[j].name : j \in DOMAIN node.names}

\* read has just stored the edge set of `module`, whose import nodes are the_ast
Completed == pc = "read_loop" /\ module # None
Dst == DictAt(ret_val, module[1].qname)
Nodes(P(_)) == {i \in DOMAIN the_ast : P(the_ast[i])}
OnlyNodes(P(_)) == the_ast # <<>> /\ \A i \in DOMAIN the_ast : P(the_ast[i])

(***************************************************************************)
(* C1.                                                                     *)
(***************************************************************************)
TargetSet == {<<n>> : n \in RootNames} \cup extra_targets

\* C1: every plain import, in a scanned module, of a name that some member of
\* TargetSet (the names of the root's children and the extra targets) is a
\* prefix of, is an edge of that module.
C1_ExtraTargetEdges ==
    Completed =>
        \A i \in Nodes(IsPlain) : \A q \in PlainNames(the_ast[i]) :
            (\E t \in TargetSet : IsPrefix(t, q)) => q \in Dst

IsStarOfPackage(node) ==
    IsAbsoluteFrom(node) /\ IsWildcard(node) /\ IsPackagePath(BaseOf(node))
StarEdges(node) ==
    {Append(BaseOf(node), n) : n \in FsMembers(BaseOf(node))}

\* C3: an absolute wildcard from-import of a package of the tree gives one
\* edge per name of a direct member (module or sub-package) of the package,
\* and none to base + ('*',); a module of one such import has exactly these.
C3_Wildcard ==
    Completed =>
        /\ \A i \in Nodes(IsStarOfPackage) :
              /\ StarEdges(the_ast[i]) \subseteq Dst
              /\ Append(BaseOf(the_ast[i]), "*") \notin Dst
        /\ (Len(the_ast) = 1 /\ IsStarOfPackage(the_ast[1])) =>
              /\ Dst = StarEdges(the_ast[1])
              /\ Len(output) = Cardinality(FsMembers(BaseOf(the_ast[1])))

\* from a import *, a having a module and a sub-package
C3_Witness ==
    /\ Completed
    /\ Len(the_ast) = 1
    /\ IsStarOfPackage(the_ast[1])
    /\ FsModules(<<"a">>) = {"a"}
    /\ FsPackages(<<"a">>) = {"b"}
    /\ Dst = {<<"a", "a">>, <<"a", "b">>}

(***************************************************************************)
(* C4.                                                                     *)
(***************************************************************************)
\* the targets an import node stands for, by kind
RefCandidates(node) ==
    IF IsPlain(node) THEN PlainNames(node)
    ELSE IF IsRelativeFrom(node) THEN {}
    ELSE IF BaseOf(node)[1] \notin RootNames THEN {}
    ELSE IF ~IsPackagePath(BaseOf(node)) THEN {BaseOf(node)}
    ELSE IF IsWildcard(node) THEN StarEdges(node)
    ELSE {Append(BaseOf(node), n) : n \in FromNamesOf(node)}
RefEdges(nodes) ==
    {q \in UNION {RefCandidates(nodes[i]) : i \in DOMAIN nodes} : q[1] \in RootNames}
NotRelative(node) == ~IsRelativeFrom(node)

\* C4: the edge set of a module is that of the module with its imports of
\* nonzero level deleted.
C4_RelativeIgnored ==
    Completed => Dst = RefEdges(SelectSeq(the_ast, NotRelative))

\* a module with a relative import naming a child of the root, and besides it
\* an import that is an edge
C4_Witness ==
    /\ Completed
    /\ Nodes(IsRelativeFrom) # {}
    /\ "a" \in RootNames
    /\ Dst # {}

(***************************************************************************)
(* C5.                                                                     *)
(***************************************************************************)
\* C5: read() yields one entry per module of the tree and no other: while it
\* runs, the entries stored, the module being read and the modules still to
\* come are distinct and together the modules of the tree; what it returns has
\* exactly their qualified names as keys.
C5_OneEntryPerModule ==
    /\ pc \in {"read_loop", "visit"} =>
          /\ DictKeySet(ret_val) \subseteq FsModuleNames
          /\ Len(ret_val) + Len(iter) + (IF pc = "visit" THEN 1 ELSE 0)
                = Cardinality(FsModuleNames)
    /\ pc \in {"output", "done"} =>
          /\ DictKeySet(dependencies[1]) = FsModuleNames
          /\ Len(dependencies[1]) = Cardinality(FsModuleNames)

\* a run to the end over a tree of three modules, at three depths
C5_Witness ==
    /\ pc = "done"
    /\ FsModuleNames = {<<"a">>, <<"a", "a">>, <<"a", "b", "a">>}

(***************************************************************************)
(* C6.                                                                     *)
(***************************************************************************)
\* C6: a line is on standard output only after read() has returned an entry
\* for every module of the tree; a run in which a module fails to parse has
\* ended, with no line written.
C6_NoPartialGraph ==
    /\ stdout # <<>> =>
          /\ pc \in {"output", "done"}
          /\ DictKeySet(dependencies[1]) = FsModuleNames
    /\ pc = "failed" => stdout = <<>> /\ ~ENABLED Next

\* a module fails to parse after edges of another module were found
C6_Witness ==
    /\ pc = "failed"
    /\ \E i \in DOMAIN ret_val : ret_val[i][2] # {}

(***************************************************************************)
(* C7.                                                                     *)
(***************************************************************************)
\* of_dir has just returned the tree to main
TreeBuilt == pc = "read_input_paths"
\* the PackageInfo of the tree at directory d, if any
PackageAt(d) == LookupFrom(root_dir_info[1], d)
NodeMatchesDir(d) ==
    /\ DictKeySet(PackageAt(d)[1].modules) = FsModules(d)
    /\ DictKeySet(PackageAt(d)[1].packages) = FsPackages(d)
    /\ \A m \in FsModules(d) :
          DictAt(PackageAt(d)[1].modules, m) = ModuleInfo(File(d, m, ".py"))

\* C7: a directory below src_dir is a package of the tree exactly when it and
\* every directory between it and src_dir hold the marker, so that nothing
\* at or beneath a directory without the marker is in the tree; src_dir is
\* the root package; a package's modules are its source files but the
\* marker, by stem, and its packages its sub-directories holding the marker.
C7_TreeBuilder ==
    TreeBuilt =>
        \A d \in DirPaths :
            /\ PackageAt(d) # None <=> IsPackagePath(d)
            /\ PackageAt(d) # None => NodeMatchesDir(d)

\* src_dir without a marker holds a.py and an unmarked directory a, whose
\* sub-directory b is marked and holds a.py: the tree is the module a alone
C7_Witness ==
    /\ TreeBuilt
    /\ InitFile(<<>>) \notin fs
    /\ InitFile(<<"a">>) \notin fs
    /\ {InitFile(<<"a", "b">>), File(<<"a", "b">>, "a", ".py")} \subseteq fs
    /\ root_dir_info[1].names = {"a"}
    /\ root_dir_info[1].packages = <<>>

(***************************************************************************)
(* C8.                                                                     *)
(***************************************************************************)
RefRender(q) ==
    [i \in 1..(2 * Len(q) - 1) |-> IF i % 2 = 1 THEN q[(i + 1) \div 2] ELSE "."]
RefLine(src, dst) == RefRender(src) \o <<" ">> \o RefRender(dst)

RECURSIVE EdgeCount(_, _)
\* the number of edges of the first n entries of the dict deps
EdgeCount(deps, n) ==
    IF n = 0 THEN 0 ELSE EdgeCount(deps, n - 1) + Cardinality(deps[n][2])

\* the edges output_dependencies has got past: those of the entries up to
\* out_src, but for the dsts of entry out_src still to print
EdgesPrinted ==
    {e \in UNION {{<<dependencies[1][i][1], q>> : q \in dependencies[1][i][2]}
                    : i \in 1..out_src}
       : ~(e[1] = dependencies[1][out_src][1] /\ e[2] \in out_rest)}

\* C8: the lines written are those of the edges got past, each once: no line
\* is written twice, none for a module without edges, and at the end their
\* number is the sum of the sizes of the modules' edge sets.
C8_OneLinePerEdge ==
    pc \in {"output", "done"} =>
        /\ Range(stdout) = {RefLine(e[1], e[2]) : e \in EdgesPrinted}
        /\ Len(stdout) = Cardinality(EdgesPrinted)
        /\ pc = "done" =>
              Len(stdout) = EdgeCount(dependencies[1], Len(dependencies[1]))

\* a run to the end in which a module has no edge and another has two
C8_Witness ==
    /\ pc = "done"
    /\ Len(stdout) = 2
    /\ \E i, j \in DOMAIN dependencies[1] :
          /\ dependencies[1][i][2] = {}
          /\ Cardinality(dependencies[1][j][2]) = 2

(***************************************************************************)
(* C9.                                                                     *)
(***************************************************************************)
IsUnresolved(node) ==
    /\ IsAbsoluteFrom(node)
    /\ BaseOf(node)[1] \in RootNames
    /\ ~IsPackagePath(BaseOf(node))

IsNamesOfPackage(node) ==
    IsAbsoluteFrom(node) /\ ~IsWildcard(node) /\ IsPackagePath(BaseOf(node))
IsFromNonTarget(node) ==
    IsAbsoluteFrom(node) /\ BaseOf(node)[1] \notin RootNames

====
